---- MODULE Spec2Model ----
(***************************************************************************)
(* docs.rs metrics registry: src/src/metrics/mod.rs.                       *)
(*                                                                         *)
(* The `metrics!` invocation declares the schema (lines 15-68) and         *)
(* `Metrics::gather` (lines 71-87) refreshes the pulled gauges from the    *)
(* connection pool, the build queue and procfs before asking the           *)
(* prometheus registry for every registered metric family.                 *)
(***************************************************************************)
EXTENDS Integers, Sequences, FiniteSets, TLC

\* ------------------------------------------------------------------ bounds

\* Largest count an accessor returns in the model.
MaxCount == 2
\* Operations (constructions, ambient mutations, gather calls) per behaviour.
MaxOps == 3

\* ------------------------------------------------------------------ schema

Namespace == "docsrs"

QueueGauges == <<"queued_crates_count", "prioritized_crates_count", "failed_crates_count">>

PoolGauges == <<"idle_db_connections", "used_db_connections", "max_db_connections">>

LinuxGauges == <<"open_file_descriptors", "running_threads">>

\* The six gauges gather pulls on every platform, in the order gather sets them.
PulledGauges == PoolGauges \o QueueGauges

GaugeNames == {PulledGauges[i] : i \in 1..6} \cup {LinuxGauges[i] : i \in 1..2}

CounterNames ==
    {"failed_db_connections", "total_builds", "successful_builds", "failed_builds",
     "non_library_builds", "uploaded_files_total", "html_rewrite_ooms"}

CounterVecNames == {"routes_visited"}

HistogramVecNames == {"response_time", "rustdoc_rendering_times"}

VecNames == CounterVecNames \cup HistogramVecNames

MetricNames == GaugeNames \cup CounterNames \cup VecNames

\* #[cfg(target_os = "linux")] on a field: the metric exists only on linux.
LinuxOnly(name) == name \in {LinuxGauges[i] : i \in 1..2}

\* The metrics that exist on the platform the program was built for.
Declared(isLinux) == {n \in MetricNames : LinuxOnly(n) => isLinux}

\* The name a metric is exported under: the namespace is its prefix.
ExportedName(name) == <<Namespace, name>>

\* Label values used by the callers of the vector metrics.
Labels == {"foo", "bar"}

\* Errors a queue read can return.
Errors == {"queue_unreachable", "query_failed"}

\* --------------------------------------------------------- collaborators

Counts == {0, MaxCount}

\* Pool states: idle and used connections never exceed the configured maximum.
PoolStates ==
    {p \in [idle : Counts, used : Counts, max : {MaxCount}] : p.idle + p.used <= p.max}

Ok(v) == [ok |-> TRUE, val |-> v, err |-> "none"]

Fail(e) == [ok |-> FALSE, val |-> 0, err |-> e]

\* What one queue read (pending_count, prioritized_count, failed_count) returns.
QueueResults == {Ok(v) : v \in Counts} \cup {Fail(e) : e \in Errors}

\* What procfs returns: Process::myself(), process.fd() and process.stat(). When
\* /proc/self cannot be opened its fd directory and stat file cannot be read
\* either; stat is enumerated only for a process whose fd directory was read.
ProcResults ==
    {p \in [myself : {Ok(0), Fail("procfs")},
            fd : {Ok(MaxCount), Fail("procfs")},
            stat : {Ok(MaxCount), Fail("procfs")}] :
        /\ ~p.myself.ok => ~p.fd.ok
        /\ ~p.fd.ok => ~p.stat.ok}

\* Off linux gather_system_performance reads nothing.
ProcReads(isLinux) ==
    IF isLinux THEN ProcResults ELSE {[myself |-> Ok(0), fd |-> Ok(0), stat |-> Ok(0)]}

\* ------------------------------------------------------------------- state

VARIABLES
    linux,       \* target_os = "linux": fixed when the program is built
    registered,  \* the backend: how often each metric name was registered
    built,       \* whether a Metrics value has been constructed
    gauge,       \* IntGauge values, by field name
    counter,     \* IntCounter values, by field name
    vec,         \* IntCounterVec / HistogramVec: series (label -> count) by field name
    issued,      \* history: increments issued per counter since construction
    observed,    \* history: observations issued per vector and label
    ops,         \* operations performed so far
    last,        \* the most recent operation and what its collaborators returned
    ret,         \* what the most recent operation returned to its caller
    pc,          \* per concurrent caller of gather: where its call stands
    idx,         \* per caller: which of the six pulled gauges it is at
    tmp,         \* per caller: the value it has read and not yet set
    res,         \* per caller: what its last gather call returned
    log,         \* history, per caller: the reads, sets and serialization of its call
    lastSet      \* history, per pulled gauge: the value of the last set performed on it

concVars == <<pc, idx, tmp, res, log, lastSet>>

vars ==
    <<linux, registered, built, gauge, counter, vec, issued, observed, ops, last, ret,
      pc, idx, tmp, res, log, lastSet>>

\* The concurrent callers of gather.
Callers == {"scrape_a", "scrape_b"}

Unit == [kind |-> "unit"]

Init ==
    /\ linux \in BOOLEAN
    /\ registered = [n \in MetricNames |-> 0]
    /\ built = FALSE
    /\ gauge = [n \in GaugeNames |-> 0]
    /\ counter = [n \in CounterNames |-> 0]
    /\ vec = [n \in VecNames |-> <<>>]
    /\ issued = [n \in CounterNames |-> 0]
    /\ observed = [n \in VecNames |-> [l \in Labels |-> 0]]
    /\ ops = 0
    /\ last = [op |-> "none"]
    /\ ret = [kind |-> "none"]
    /\ pc = [p \in Callers |-> "idle"]
    /\ idx = [p \in Callers |-> 0]
    /\ tmp = [p \in Callers |-> 0]
    /\ res = [p \in Callers |-> [kind |-> "none"]]
    /\ log = [p \in Callers |-> <<>>]
    /\ lastSet = [i \in 1..6 |-> 0]

\* ------------------------------------------------------------ construction

\* A backend that accepts a name it already holds.
RegisterAllUnchecked(reg, names) ==
    [ok |-> TRUE, reg |-> [n \in MetricNames |-> IF n \in names THEN reg[n] + 1 ELSE reg[n]]]

\* Registry::register: a name already registered in this backend is rejected.
RegisterAll(reg, names) ==
    IF \E n \in names : reg[n] > 0
    THEN [ok |-> FALSE, reg |-> reg]
    ELSE [ok |-> TRUE, reg |-> [n \in MetricNames |-> IF n \in names THEN reg[n] + 1 ELSE reg[n]]]

\* Metrics::new against the one backend instance: builds every declared metric
\* and registers it; a rejected registration fails the construction.
Construct ==
    /\ ops < MaxOps
    /\ ops' = ops + 1
    /\ LET r == RegisterAll(registered, Declared(linux)) IN
        /\ registered' = r.reg
        /\ built' = (built \/ r.ok)
        /\ ret' = IF r.ok THEN [kind |-> "metrics"] ELSE [kind |-> "register_error"]
    /\ last' = [op |-> "construct"]
    /\ UNCHANGED <<linux, gauge, counter, vec, issued, observed>>
    /\ UNCHANGED concVars

\* ------------------------------------------------------- ambient mutation

\* An increment that stores instead of adding: concurrent increments are lost.
CounterIncLossy(c, name) == [c EXCEPT ![name] = 1]

\* IntCounter::inc: one atomic add.
CounterInc(c, name) == [c EXCEPT ![name] = @ + 1]

\* self.<counter>.inc() from anywhere in the crate.
Inc(name) ==
    /\ built
    /\ ops < MaxOps
    /\ ops' = ops + 1
    /\ counter' = CounterInc(counter, name)
    /\ issued' = [issued EXCEPT ![name] = @ + 1]
    /\ last' = [op |-> "inc"]
    /\ ret' = Unit
    /\ UNCHANGED <<linux, registered, built, gauge, vec, observed>>
    /\ UNCHANGED concVars

\* MetricVec::with_label_values: the series of the label, created on first use.
WithLabelValues(series, label) ==
    IF label \in DOMAIN series THEN series
    ELSE [l \in DOMAIN series \cup {label} |-> IF l = label THEN 0 ELSE series[l]]

\* An observation that counts the event in every series of the vector.
VecObserveAll(v, name, label) ==
    [v EXCEPT ![name] =
        [l \in DOMAIN WithLabelValues(@, label) |-> WithLabelValues(@, label)[l] + 1]]

\* with_label_values(&[label]).inc() / .observe(_): one more event in that series.
VecObserve(v, name, label) ==
    [v EXCEPT ![name] = [WithLabelValues(@, label) EXCEPT ![label] = @ + 1]]

\* self.routes_visited / response_time / rustdoc_rendering_times under a label.
Observe(name, label) ==
    /\ built
    /\ ops < MaxOps
    /\ ops' = ops + 1
    /\ vec' = VecObserve(vec, name, label)
    /\ observed' = [observed EXCEPT ![name][label] = @ + 1]
    /\ last' = [op |-> "observe"]
    /\ ret' = Unit
    /\ UNCHANGED <<linux, registered, built, gauge, counter, issued>>
    /\ UNCHANGED concVars

\* ------------------------------------------------------------------ gather

\* A cast that keeps only the lowest bit of the count.
AsI64Narrow(v) == v % 2

\* `x as i64` of a count: the value itself for every count below 2^63.
AsI64(v) == v

\* A gauge that keeps the larger of its value and the value set.
GaugeSetMax(g, name, v) == [g EXCEPT ![name] = IF v > @ THEN v ELSE @]

\* IntGauge::set.
GaugeSet(g, name, v) == [g EXCEPT ![name] = v]

\* Lines 76-78: the three pool reads, each followed by its gauge set.
SetPoolGauges(g, pool) ==
    GaugeSet(GaugeSet(GaugeSet(g,
        "idle_db_connections", AsI64(pool.idle)),
        "used_db_connections", AsI64(pool.used)),
        "max_db_connections", AsI64(pool.max))

\* A gather that reports every queue failure as the same error.
PropagateGeneric(r) == [kind |-> "err", error |-> "queue_unreachable"]

\* The `?` operator on a failed queue read: the error becomes gather's result.
Propagate(r) == [kind |-> "err", error |-> r.err]

\* gather_system_performance: a no-op off linux; on linux three procfs reads,
\* each unwrapped, so a failed read panics.
GatherSystemPerformance(g, isLinux, proc) ==
    IF ~isLinux THEN [gauge |-> g, panicked |-> FALSE, invoked |-> <<>>]
    ELSE IF ~proc.myself.ok THEN [gauge |-> g, panicked |-> TRUE, invoked |-> <<proc.myself>>]
    ELSE IF ~proc.fd.ok
        THEN [gauge |-> g, panicked |-> TRUE, invoked |-> <<proc.myself, proc.fd>>]
    ELSE LET g1 == GaugeSet(g, "open_file_descriptors", AsI64(proc.fd.val)) IN
        IF ~proc.stat.ok
        THEN [gauge |-> g1, panicked |-> TRUE, invoked |-> <<proc.myself, proc.fd, proc.stat>>]
        ELSE [gauge |-> GaugeSet(g1, "running_threads", AsI64(proc.stat.val)),
              panicked |-> FALSE, invoked |-> <<proc.myself, proc.fd, proc.stat>>]

\* The value a registered metric contributes to a snapshot.
MetricValue(name, g, c, v) ==
    IF name \in GaugeNames THEN g[name] ELSE IF name \in CounterNames THEN c[name] ELSE v[name]

\* A registry that also emits the empty family of a vector without series.
RegistryGatherUnpruned(reg, g, c, v) ==
    [x \in {ExportedName(n) : n \in {m \in MetricNames : reg[m] > 0}} |->
        MetricValue(x[2], g, c, v)]

\* Registry::gather: one family per registered collector, by exported name; a
\* vector without any series collects no metric and its empty family is pruned.
RegistryGather(reg, g, c, v) ==
    LET present == {n \in MetricNames : reg[n] > 0 /\ (n \in VecNames => DOMAIN v[n] # {})} IN
    [x \in {ExportedName(n) : n \in present} |-> MetricValue(x[2], g, c, v)]

\* A gather that undoes its gauge writes when it returns an error.
ReturnRollback(g, r, pool, queue, proc) ==
    /\ gauge' = IF r.kind = "err" THEN gauge ELSE g
    /\ ret' = r
    /\ last' = [op |-> "gather", pool |-> pool, queue |-> queue, proc |-> proc]
    /\ ops' = ops + 1
    /\ UNCHANGED <<linux, registered, built, counter, vec, issued, observed>>
    /\ UNCHANGED concVars

\* gather returns: the gauges it has set stay set, whatever it returns.
Return(g, r, pool, queue, proc) ==
    /\ gauge' = g
    /\ ret' = r
    /\ last' = [op |-> "gather", pool |-> pool, queue |-> queue, proc |-> proc]
    /\ ops' = ops + 1
    /\ UNCHANGED <<linux, registered, built, counter, vec, issued, observed>>
    /\ UNCHANGED concVars

\* Lines 85-86 once the three queue reads succeeded.
Finish(g, pool, queue) ==
    \E proc \in ProcReads(linux) :
        LET s == GatherSystemPerformance(g, linux, proc) IN
        IF s.panicked
        THEN Return(s.gauge, [kind |-> "panic"], pool, queue, s.invoked)
        ELSE Return(s.gauge,
                    [kind |-> "snapshot",
                     families |-> RegistryGather(registered, s.gauge, counter, vec)],
                    pool, queue, s.invoked)

\* Metrics::gather called by one caller at a time, as one step.
Gather ==
    /\ built
    /\ ops < MaxOps
    /\ \E pool \in PoolStates :
        LET g0 == SetPoolGauges(gauge, pool) IN
        \E r1 \in QueueResults :
            IF ~r1.ok THEN Return(g0, Propagate(r1), pool, <<r1>>, <<>>)
            ELSE LET g1 == GaugeSet(g0, "queued_crates_count", AsI64(r1.val)) IN
            \E r2 \in QueueResults :
                IF ~r2.ok THEN Return(g1, Propagate(r2), pool, <<r1, r2>>, <<>>)
                ELSE LET g2 == GaugeSet(g1, "prioritized_crates_count", AsI64(r2.val)) IN
                \E r3 \in QueueResults :
                    IF ~r3.ok THEN Return(g2, Propagate(r3), pool, <<r1, r2, r3>>, <<>>)
                    ELSE Finish(GaugeSet(g2, "failed_crates_count", AsI64(r3.val)),
                                pool, <<r1, r2, r3>>)

\* ------------------------------------------------ gather, step by step

\* The accessor gather reads for each pulled gauge, in the order of lines 76-83.
Accessors ==
    <<"idle_connections", "used_connections", "max_size",
      "pending_count", "prioritized_count", "failed_count">>

\* What the i-th accessor can return: a pool read cannot fail, a queue read can.
AccessorResults(i) ==
    IF i = 1 THEN {Ok(p.idle) : p \in PoolStates}
    ELSE IF i = 2 THEN {Ok(p.used) : p \in PoolStates}
    ELSE IF i = 3 THEN {Ok(p.max) : p \in PoolStates}
    ELSE QueueResults

Ev(kind, what) == [ev |-> kind, what |-> what]

Logged(p, e) == log' = [log EXCEPT ![p] = Append(@, e)]

\* The call of caller p ends: it returns r (or unwinds, for a panic).
EndCall(p, r) ==
    /\ pc' = [pc EXCEPT ![p] = "idle"]
    /\ idx' = [idx EXCEPT ![p] = 0]
    /\ tmp' = [tmp EXCEPT ![p] = 0]
    /\ res' = [res EXCEPT ![p] = r]

\* The caller goes on to position `to` holding the value v it has read.
Goto(p, to, v) ==
    /\ pc' = [pc EXCEPT ![p] = to]
    /\ tmp' = [tmp EXCEPT ![p] = v]
    /\ UNCHANGED <<idx, res>>

\* A gather that reads again after a failed read.
QuestionRetry(p, r) == IF r.ok THEN Goto(p, "set", r.val) ELSE UNCHANGED <<pc, idx, tmp, res>>

\* `<read>?`: the value of a successful read, or gather returns the error.
Question(p, r) == IF r.ok THEN Goto(p, "set", r.val) ELSE EndCall(p, Propagate(r))

\* `<read>.unwrap()`: the value of a successful read, or the call panics.
Unwrap(p, r, to) == IF r.ok THEN Goto(p, to, r.val) ELSE EndCall(p, [kind |-> "panic"])

\* A caller enters gather; each caller scrapes once.
Call(p) ==
    /\ built
    /\ pc[p] = "idle"
    /\ res[p].kind = "none"
    /\ pc' = [pc EXCEPT ![p] = "read"]
    /\ idx' = [idx EXCEPT ![p] = 1]
    /\ res' = [res EXCEPT ![p] = [kind |-> "none"]]
    /\ log' = [log EXCEPT ![p] = <<>>]
    /\ UNCHANGED <<linux, registered, built, gauge, counter, vec, issued, observed, ops>>
    /\ UNCHANGED <<last, ret, tmp, lastSet>>

\* The argument of a set of lines 76-83 is evaluated: the accessor is read.
Read(p) ==
    /\ pc[p] = "read"
    /\ \E r \in AccessorResults(idx[p]) : Question(p, r)
    /\ Logged(p, Ev("read", Accessors[idx[p]]))
    /\ UNCHANGED <<linux, registered, built, gauge, counter, vec, issued, observed, ops>>
    /\ UNCHANGED <<last, ret, lastSet>>

\* The set of lines 76-83 stores the value read.
Set(p) ==
    /\ pc[p] = "set"
    /\ gauge' = GaugeSet(gauge, PulledGauges[idx[p]], AsI64(tmp[p]))
    /\ lastSet' = [lastSet EXCEPT ![idx[p]] = AsI64(tmp[p])]
    /\ Logged(p, Ev("set", PulledGauges[idx[p]]))
    /\ pc' = [pc EXCEPT ![p] =
                IF idx[p] < 6 THEN "read" ELSE IF linux THEN "myself" ELSE "serialize"]
    /\ idx' = [idx EXCEPT ![p] = IF @ < 6 THEN @ + 1 ELSE 0]
    /\ tmp' = [tmp EXCEPT ![p] = 0]
    /\ UNCHANGED <<linux, registered, built, counter, vec, issued, observed, ops>>
    /\ UNCHANGED <<last, ret, res>>

\* Line 96: Process::myself().unwrap().
Myself(p) ==
    /\ pc[p] = "myself"
    /\ \E r \in {Ok(0), Fail("procfs")} : Unwrap(p, r, "fd")
    /\ Logged(p, Ev("read", "myself"))
    /\ UNCHANGED <<linux, registered, built, gauge, counter, vec, issued, observed, ops>>
    /\ UNCHANGED <<last, ret, lastSet>>

\* Line 98: process.fd().unwrap().len().
ReadFd(p) ==
    /\ pc[p] = "fd"
    /\ \E r \in {Ok(MaxCount), Fail("procfs")} : Unwrap(p, r, "set_fd")
    /\ Logged(p, Ev("read", "fd"))
    /\ UNCHANGED <<linux, registered, built, gauge, counter, vec, issued, observed, ops>>
    /\ UNCHANGED <<last, ret, lastSet>>

\* Lines 97-98: self.open_file_descriptors.set(..).
SetFd(p) ==
    /\ pc[p] = "set_fd"
    /\ gauge' = GaugeSet(gauge, "open_file_descriptors", AsI64(tmp[p]))
    /\ Logged(p, Ev("set", "open_file_descriptors"))
    /\ Goto(p, "stat", 0)
    /\ UNCHANGED <<linux, registered, built, counter, vec, issued, observed, ops>>
    /\ UNCHANGED <<last, ret, lastSet>>

\* Line 100: process.stat().unwrap().num_threads.
ReadStat(p) ==
    /\ pc[p] = "stat"
    /\ \E r \in {Ok(MaxCount), Fail("procfs")} : Unwrap(p, r, "set_threads")
    /\ Logged(p, Ev("read", "stat"))
    /\ UNCHANGED <<linux, registered, built, gauge, counter, vec, issued, observed, ops>>
    /\ UNCHANGED <<last, ret, lastSet>>

\* Lines 99-100: self.running_threads.set(..).
SetThreads(p) ==
    /\ pc[p] = "set_threads"
    /\ gauge' = GaugeSet(gauge, "running_threads", AsI64(tmp[p]))
    /\ Logged(p, Ev("set", "running_threads"))
    /\ Goto(p, "serialize", 0)
    /\ UNCHANGED <<linux, registered, built, counter, vec, issued, observed, ops>>
    /\ UNCHANGED <<last, ret, lastSet>>

\* Line 86: Ok(self.registry.gather()).
Serialize(p) ==
    /\ pc[p] = "serialize"
    /\ EndCall(p, [kind |-> "snapshot"])
    /\ ret' = [kind |-> "snapshot",
               families |-> RegistryGather(registered, gauge, counter, vec)]
    /\ last' = [op |-> "serialize"]
    /\ Logged(p, Ev("serialize", "registry"))
    /\ UNCHANGED <<linux, registered, built, gauge, counter, vec, issued, observed, ops>>
    /\ UNCHANGED lastSet

\* One step of the gather call of caller p.
GatherStep(p) ==
    \/ Read(p)
    \/ Set(p)
    \/ Myself(p)
    \/ ReadFd(p)
    \/ SetFd(p)
    \/ ReadStat(p)
    \/ SetThreads(p)
    \/ Serialize(p)

\* ---------------------------------------------------------- specification

Next ==
    \/ Construct
    \/ \E name \in CounterNames : Inc(name)
    \/ \E name \in VecNames, label \in Labels : Observe(name, label)
    \/ Gather

Spec == Init /\ [][Next]_vars

\* The program once Metrics::new has returned the Metrics value.
InitConc ==
    /\ linux \in BOOLEAN
    /\ registered = RegisterAll([n \in MetricNames |-> 0], Declared(linux)).reg
    /\ built = TRUE
    /\ gauge = [n \in GaugeNames |-> 0]
    /\ counter = [n \in CounterNames |-> 0]
    /\ vec = [n \in VecNames |-> <<>>]
    /\ issued = [n \in CounterNames |-> 0]
    /\ observed = [n \in VecNames |-> [l \in Labels |-> 0]]
    /\ ops = 1
    /\ last = [op |-> "construct"]
    /\ ret = [kind |-> "metrics"]
    /\ pc = [p \in Callers |-> "idle"]
    /\ idx = [p \in Callers |-> 0]
    /\ tmp = [p \in Callers |-> 0]
    /\ res = [p \in Callers |-> [kind |-> "none"]]
    /\ log = [p \in Callers |-> <<>>]
    /\ lastSet = [i \in 1..6 |-> 0]

NextConc ==
    \/ \E p \in Callers : Call(p)
    \/ \E p \in Callers : GatherStep(p)

\* Callers run on threads of their own: a call in flight keeps taking steps.
SpecConc == InitConc /\ [][NextConc]_vars /\ \A p \in Callers : WF_vars(GatherStep(p))

\* ------------------------------------------------------------------ claims

Family(name) == ret.families[ExportedName(name)]

\* The most recent operation was a gather whose reads all succeeded.
AllReadsOk ==
    /\ last.op = "gather"
    /\ Len(last.queue) = 3
    /\ \A i \in DOMAIN last.queue : last.queue[i].ok
    /\ \A i \in DOMAIN last.proc : last.proc[i].ok

\* C1: when every read of a gather call succeeds (one caller in gather at a
\* time) the call returns a Snapshot whose six pulled gauges are exactly the
\* values the accessors returned.
C1_SnapshotReadsAccessorValues ==
    AllReadsOk =>
        /\ ret.kind = "snapshot"
        /\ Family("idle_db_connections") = last.pool.idle
        /\ Family("used_db_connections") = last.pool.used
        /\ Family("max_db_connections") = last.pool.max
        /\ Family("queued_crates_count") = last.queue[1].val
        /\ Family("prioritized_crates_count") = last.queue[2].val
        /\ Family("failed_crates_count") = last.queue[3].val

C1_Witness ==
    /\ AllReadsOk
    /\ last.pool.used = MaxCount
    /\ last.pool.idle = 0
    /\ last.queue[1].val = MaxCount
    /\ last.queue[2].val = 0
    /\ last.queue[3].val = MaxCount

\* The most recent operation was a gather one of whose queue reads failed.
AQueueReadFailed == last.op = "gather" /\ \E i \in DOMAIN last.queue : ~last.queue[i].ok

FirstFailedRead ==
    CHOOSE i \in DOMAIN last.queue :
        ~last.queue[i].ok /\ \A j \in 1..(i - 1) : last.queue[j].ok

\* C2: a gather call one of whose queue reads fails returns, whatever the pool
\* returned, the error of the first failing read and no Snapshot.
C2_QueueFailureIsReturned ==
    AQueueReadFailed => ret = [kind |-> "err", error |-> last.queue[FirstFailedRead].err]

C2_Witness ==
    /\ AQueueReadFailed
    /\ FirstFailedRead = 2
    /\ last.queue[2].err = "query_failed"
    /\ last.pool.idle = MaxCount

\* The most recent operation was a gather on linux whose read of the open file
\* descriptors or of the thread count failed.
ProcReadFailed ==
    /\ linux
    /\ last.op = "gather"
    /\ \E i \in DOMAIN last.proc : i \in {2, 3} /\ ~last.proc[i].ok

\* C3: on linux a gather call whose file descriptor or thread count read fails
\* returns an error to its caller.
C3_ProcFailureIsReturned == ProcReadFailed => ret.kind = "err"

\* The state right after construction and one successful gather.
FirstGatherSucceeded == ops = 2 /\ last.op = "gather" /\ ret.kind = "snapshot"

\* C4 as stated: after construction and one successful gather every declared
\* metric, vectors included, is a family of the Snapshot.
C4_EveryDeclaredMetricAppears ==
    FirstGatherSucceeded =>
        \A n \in Declared(linux) : ExportedName(n) \in DOMAIN ret.families

\* C4 as amended: a Snapshot holds exactly the declared scalar metrics and the
\* declared vectors on which a label value has been observed.
C4_ScalarsAndObservedVectorsAppear ==
    (last.op = "gather" /\ ret.kind = "snapshot") =>
        \A n \in MetricNames :
            ExportedName(n) \in DOMAIN ret.families <=>
                /\ n \in Declared(linux)
                /\ n \in VecNames => \E l \in Labels : observed[n][l] > 0

C4_Witness ==
    /\ FirstGatherSucceeded
    /\ ExportedName("total_builds") \in DOMAIN ret.families
    /\ ExportedName("routes_visited") \notin DOMAIN ret.families

\* C5: every declared metric is registered once, by the construction, and a
\* construction against a backend that already holds the names fails.
C5_RegisteredOnce ==
    /\ \A n \in MetricNames :
        registered[n] = IF built /\ n \in Declared(linux) THEN 1 ELSE 0
    /\ (last.op = "construct" /\ ops > 1) => ret.kind = "register_error"
    /\ (last.op = "construct" /\ ops = 1) => ret.kind = "metrics" /\ built

C5_Witness == last.op = "construct" /\ ops > 1 /\ ret.kind = "register_error"

C7_SeriesCountOwnLabel ==
    /\ [](\A l \in Labels :
            /\ l \in DOMAIN vec["routes_visited"] <=> observed["routes_visited"][l] > 0
            /\ l \in DOMAIN vec["routes_visited"] =>
                    vec["routes_visited"][l] = observed["routes_visited"][l])
    /\ [][DOMAIN vec["routes_visited"] \subseteq DOMAIN vec'["routes_visited"]]_vars

C7_Witness ==
    /\ DOMAIN vec["routes_visited"] = {"foo"}
    /\ vec["routes_visited"]["foo"] = 2

\* The reads, sets and serialization of one gather call, in the order of the code.
GatherOrder(isLinux) ==
    <<Ev("read", "idle_connections"), Ev("set", "idle_db_connections"),
      Ev("read", "used_connections"), Ev("set", "used_db_connections"),
      Ev("read", "max_size"), Ev("set", "max_db_connections"),
      Ev("read", "pending_count"), Ev("set", "queued_crates_count"),
      Ev("read", "prioritized_count"), Ev("set", "prioritized_crates_count"),
      Ev("read", "failed_count"), Ev("set", "failed_crates_count")>>
    \o (IF isLinux
        THEN <<Ev("read", "myself"), Ev("read", "fd"), Ev("set", "open_file_descriptors"),
               Ev("read", "stat"), Ev("set", "running_threads")>>
        ELSE <<>>)
    \o <<Ev("serialize", "registry")>>

IsPrefix(s, t) == Len(s) <= Len(t) /\ SubSeq(t, 1, Len(s)) = s

\* C8: a gather call performs its reads and sets in the order pool, queue,
\* process introspection, serialization, each at most once; a failed read is
\* the last thing the call does, and a call that serializes has done them all.
C8_StepsInOrder ==
    \A p \in Callers :
        /\ IsPrefix(log[p], GatherOrder(linux))
        /\ res[p].kind \in {"err", "panic"} =>
                pc[p] = "idle" /\ log[p] # <<>> /\ log[p][Len(log[p])].ev = "read"
        /\ res[p].kind = "snapshot" => pc[p] = "idle" /\ log[p] = GatherOrder(linux)

C8_Witness ==
    /\ res["scrape_a"].kind = "err"
    /\ Len(log["scrape_a"]) = 9
    /\ res["scrape_b"].kind = "panic"
    /\ Len(log["scrape_b"]) = 16

\* C9: under every interleaving of concurrent gather calls a pulled gauge only
\* ever changes to a value a call in flight has read from its accessor, it holds
\* the value of the last set performed on it, and every call in flight ends.
C9_LastWriteWins ==
    /\ [](\A i \in 1..6 : gauge[PulledGauges[i]] = lastSet[i])
    /\ [][\A i \in 1..6 :
            gauge'[PulledGauges[i]] # gauge[PulledGauges[i]] =>
                \E p \in Callers :
                    pc[p] = "set" /\ idx[p] = i /\ gauge'[PulledGauges[i]] = tmp[p]]_vars
    /\ \A p \in Callers : (pc[p] # "idle") ~> (pc[p] = "idle")

C9_Witness ==
    /\ pc["scrape_a"] = "set"
    /\ idx["scrape_a"] = 4
    /\ tmp["scrape_a"] = 0
    /\ pc["scrape_b"] = "serialize"
    /\ gauge["queued_crates_count"] = MaxCount

\* C10: a gather call that fails at a queue read leaves the gauges it set
\* before the failure at the values it read, and every other gauge unchanged.
C10_FailedGatherKeepsWrites ==
    [][(last'.op = "gather" /\ ret'.kind = "err") =>
        LET k == Len(last'.queue) IN
        /\ gauge'["idle_db_connections"] = last'.pool.idle
        /\ gauge'["used_db_connections"] = last'.pool.used
        /\ gauge'["max_db_connections"] = last'.pool.max
        /\ \A i \in 1..3 :
            gauge'[QueueGauges[i]] = IF i < k THEN last'.queue[i].val ELSE gauge[QueueGauges[i]]
        /\ \A i \in 1..2 : gauge'[LinuxGauges[i]] = gauge[LinuxGauges[i]]]_vars

C10_Witness ==
    /\ last.op = "gather"
    /\ ret.kind = "err"
    /\ Len(last.queue) = 2
    /\ last.queue[1].val = 0
    /\ gauge["queued_crates_count"] = 0
    /\ gauge["prioritized_crates_count"] = MaxCount
    /\ gauge["idle_db_connections"] = MaxCount

====
